---- MODULE Spec2Model ----
(***************************************************************************)
(* Model of telegram_cleaner.cleaner.Cleaner (src/telegram_cleaner/        *)
(* cleaner.py): the confirmation gate, the keep-list filter, the chunked   *)
(* deletions, the work-list walk of delete_group_messages and the clean()  *)
(* sequence.  The pyrogram client is the environment: every remote call    *)
(* either returns a value drawn from a small set or raises.                *)
(***************************************************************************)
EXTENDS Integers, Sequences, FiniteSets, TLC

\* ------------------------------------------------------------------ bounds
\* longest input sequence of iter_chunks explored exhaustively
MaxLen == 3
\* largest chunk size of iter_chunks explored exhaustively
MaxChunk == 3
\* longest dialog list the remote client returns
MaxDialogs == 2

\* ------------------------------------------------------- program constants
\* default chunksize of iter_chunks
ChunkSize == 100
\* asyncio.sleep(2.0) after queueing a linked chat
FloodSleep == 2

\* ------------------------------------------------------------ python values
\* keep_chats holds ints and strs; a chat's username is a str or None.
\* Python's == between values of different kinds is False, so a value is a
\* record carrying its kind.
PyInt(n) == [k |-> "int", n |-> n, s |-> ""]
PyStr(s) == [k |-> "str", n |-> 0, s |-> s]
PyNone == [k |-> "None", n |-> 0, s |-> ""]
\* the empty list inside the dataclass default ([],)
PyEmptyList == [k |-> "list", n |-> 0, s |-> ""]

Min(a, b) == IF a < b THEN a ELSE b

\* a slice that forgets its start: data[: b]
SliceFromStart(data, a, b) == SubSeq(data, 1, Min(b, Len(data)))

\* data[a : b] for 0 <= a
Slice(data, a, b) == SubSeq(data, a + 1, Min(b, Len(data)))

\* whether range(0, stop, step) yields a value at position i (step # 0)
RangeHasNext(i, stop, step) == IF step > 0 THEN i < stop ELSE i > stop

\* range() arg 3 must not be zero
RangeRaises(step) == step = 0

\* ----------------------------------------------------------------- the world
\* The chats the account can meet, by id: every pyrogram ChatType, with and
\* without username, and the support account under an id other than 777000.
ChatTable == <<
    [id |-> 1, type |-> "CHANNEL", username |-> PyStr("news"), is_support |-> FALSE],
    [id |-> 2, type |-> "CHANNEL", username |-> PyNone, is_support |-> FALSE],
    [id |-> 3, type |-> "SUPERGROUP", username |-> PyStr("talk"), is_support |-> FALSE],
    [id |-> 4, type |-> "GROUP", username |-> PyNone, is_support |-> FALSE],
    [id |-> 5, type |-> "PRIVATE", username |-> PyStr("bob"), is_support |-> FALSE],
    [id |-> 6, type |-> "BOT", username |-> PyStr("helperbot"), is_support |-> FALSE],
    [id |-> 999, type |-> "PRIVATE", username |-> PyNone, is_support |-> TRUE] >>

Chats == {ChatTable[j] : j \in DOMAIN ChatTable}
ChatIds == {c.id : c \in Chats}
ChatById(id) == CHOOSE c \in Chats : c.id = id
NoChat == [id |-> 0, type |-> "", username |-> PyNone, is_support |-> FALSE]

\* what chat_info.linked_chat can be: absent, or a channel or supergroup
LinkTargets == {c \in Chats : c.type \in {"CHANNEL", "SUPERGROUP"}}

\* the contact lists get_contacts can return
ContactLists == {<<>>, <<ChatById(5)>>, <<ChatById(5), ChatById(999)>>}

\* the keep lists of a run: the dataclass default and mixes of ids and usernames
KeepLists == {
    {PyEmptyList},
    {PyInt(777000), PyInt(3), PyStr("bob")},
    {PyStr("news"), PyInt(4), PyInt(6)} }

\* the sequences over S of length at most n
RECURSIVE SeqsUpTo(_, _)
SeqsUpTo(S, n) == IF n = 0 THEN {<<>>} ELSE SeqsUpTo(S, n - 1) \cup {Append(q, x) : q \in SeqsUpTo(S, n - 1), x \in S}

\* the dialog lists get_dialogs can return: distinct chats, any order
DialogLists == {q \in SeqsUpTo(Chats, MaxDialogs) : \A a, b \in DOMAIN q : a # b => q[a].id # q[b].id}

\* the numbers of messages a history or a search can hold
MsgCounts == {0, ChunkSize + 1}
Messages(n) == [j \in 1..n |-> j]

\* what a remote call can raise
Exceptions == {"ChannelPrivate", "RPCError"}

\* the chats the account has lost access to: a call about one of them can
\* raise ChannelPrivate (and can still succeed)
Inaccessible == {2, 3}

\* what the user can type at a prompt, as character sequences
Answers == { <<>>, <<"y">>, <<"Y">>, <<" ", "Y", "e", "s", " ">>, <<"n">>, <<"n", "y">>, <<" ">> }

VARIABLES
    keep_chats,   \* Cleaner.keep_chats
    confirm_all,  \* Cleaner.confirm_all
    entry,        \* the method the caller invoked
    op,           \* the operation now running
    pc,           \* where it stands
    clean_i,      \* the next step of clean()
    chats,        \* the chat list / work-list of the running operation
    seen,         \* delete_group_messages: seen
    chat,         \* the chat being handled
    contacts,     \* delete_contacts: contacts
    message_ids,  \* the collected message ids
    i,            \* iter_chunks: the range position
    events,       \* remote calls and pushes of the running operation, in order
    log,          \* what the running operation logged
    prompts,      \* the prompts shown
    answer,       \* what input() returned to confirm
    started,      \* the operations started, in order
    finished,     \* the operations returned, in order, and how each ended
    propagated,   \* the exception that reached the caller, or "none"
    data,         \* iter_chunks: data
    chunksize,    \* iter_chunks: chunksize
    yielded,      \* iter_chunks: the chunks yielded so far
    gen           \* iter_chunks: the generator's state

cfgvars == <<keep_chats, confirm_all>>
runvars == <<entry, op, pc, clean_i, chats, seen, chat, contacts, message_ids, events, log, prompts, answer, started, finished, propagated>>
vars == <<keep_chats, confirm_all, entry, op, pc, clean_i, chats, seen, chat, contacts, message_ids, i, events, log, prompts, answer, started, finished, propagated, data, chunksize, yielded, gen>>

\* a Cleaner on which nothing has been called yet
IdleRun ==
    /\ entry = "none" /\ op = "none" /\ pc = "idle" /\ clean_i = 1
    /\ chats = <<>> /\ seen = {} /\ chat = NoChat /\ contacts = <<>>
    /\ message_ids = <<>> /\ i = 0
    /\ events = <<>> /\ log = <<>> /\ prompts = <<>> /\ answer = <<>>
    /\ started = <<>> /\ finished = <<>> /\ propagated = "none"

\* ------------------------------------------------------------- iter_chunks
\* the 250 message ids of the chunking scenario
Scenario250 == [j \in 1..250 |-> j]

InitChunks ==
    /\ IdleRun
    /\ keep_chats = {PyEmptyList} /\ confirm_all = FALSE
    /\ data \in SeqsUpTo({1, 2}, MaxLen) \cup {Scenario250}
    /\ chunksize \in (-1 .. MaxChunk) \cup {ChunkSize}
    /\ yielded = <<>>
    /\ gen = "created"

\* first next(): range(0, len(data), chunksize) is built
ChunkStart ==
    /\ gen = "created"
    /\ gen' = IF RangeRaises(chunksize) THEN "ValueError" ELSE "running"
    /\ i' = 0
    /\ UNCHANGED <<cfgvars, runvars, data, chunksize, yielded>>

\* yield data[i : i + chunksize]
ChunkYield ==
    /\ gen = "running"
    /\ RangeHasNext(i, Len(data), chunksize)
    /\ yielded' = Append(yielded, Slice(data, i, i + chunksize))
    /\ i' = i + chunksize
    /\ UNCHANGED <<cfgvars, runvars, data, chunksize, gen>>

\* the range is exhausted: StopIteration
ChunkStop ==
    /\ gen = "running"
    /\ ~RangeHasNext(i, Len(data), chunksize)
    /\ gen' = "exhausted"
    /\ UNCHANGED <<cfgvars, runvars, i, data, chunksize, yielded>>

NextChunks == ChunkStart \/ ChunkYield \/ ChunkStop

SpecChunks == InitChunks /\ [][NextChunks]_vars

\* the concatenation of a sequence of sequences, by halves
RECURSIVE Concat(_)
Concat(ss) == IF Len(ss) = 0 THEN <<>> ELSE IF Len(ss) = 1 THEN ss[1] ELSE Concat(SubSeq(ss, 1, Len(ss) \div 2)) \o Concat(SubSeq(ss, Len(ss) \div 2 + 1, Len(ss)))

ChunkSizes(ss) == [j \in DOMAIN ss |-> Len(ss[j])]

\* the generator ended, by StopIteration or by raising
IterEnded == gen \in {"exhausted", "ValueError"}

\* what C7 says of one chunk size
ChunksContract ==
    /\ \A j \in 1 .. Len(yielded) - 1 : Len(yielded[j]) = chunksize
    /\ IterEnded => Concat(yielded) = data
    /\ IterEnded /\ data = <<>> => yielded = <<>> /\ gen = "exhausted"
    /\ gen = "exhausted" /\ data = Scenario250 /\ chunksize = ChunkSize => ChunkSizes(yielded) = <<100, 100, 50>>

\* C7 as stated: for every chunk size >= 0 and every input the yielded chunks
\* concatenate to the input, all but the last have length chunksize, and an
\* empty input yields no chunks.
C7_AsStated == chunksize >= 0 => ChunksContract

\* C7 amended: the same for every chunk size >= 1 (chunk size 0 raises
\* ValueError at the first next() and yields nothing).
C7_Chunks == chunksize >= 1 => ChunksContract

\* a multi-chunk iteration with a short last chunk has ended
C7_Witness == gen = "exhausted" /\ Len(yielded) >= 2 /\ Len(yielded[Len(yielded)]) < chunksize

\* ------------------------------------------------------------------ helpers
\* str.lower() on the characters the answers use
Lower(c) == CASE c = "Y" -> "y" [] c = "N" -> "n" [] c = "E" -> "e" [] c = "S" -> "s" [] OTHER -> c

\* str.strip(): leading and trailing blanks removed
RECURSIVE LStrip(_)
LStrip(s) == IF s # <<>> /\ Head(s) = " " THEN LStrip(Tail(s)) ELSE s
RECURSIVE RStrip(_)
RStrip(s) == IF s # <<>> /\ s[Len(s)] = " " THEN RStrip(SubSeq(s, 1, Len(s) - 1)) ELSE s
Strip(s) == RStrip(LStrip(s))

\* Cleaner.confirm on the typed answer: input(...).lower().strip().startswith("y")
confirm(typed) == LET t == Strip([j \in DOMAIN typed |-> Lower(typed[j])]) IN t # <<>> /\ t[1] = "y"

\* input() at end of input raises EOFError
EndOfInput == <<"EOF">>

\* the question each gated operation asks
PromptText(o) ==
    CASE o = "delete_contacts" -> "Delete contacts"
      [] o = "delete_private_chats" -> "Delete private chats"
      [] o = "clear_private_chats" -> "Clear private chats"
      [] o = "delete_group_messages" -> "Delete group messages"
      [] o = "leave_groups" -> "Leave groups"

\* the operations that ask before acting
GatedOps == {"delete_contacts", "delete_private_chats", "clear_private_chats", "delete_group_messages", "leave_groups"}

\* leave_groups without its try / except
TryOpsButLeave == {"delete_contacts", "delete_private_chats", "clear_private_chats", "delete_group_messages", "dump_chats", "dump_me", "logout"}

\* the operations whose body is a try / except Exception
TryOps == GatedOps \cup {"dump_chats", "dump_me", "logout"}

\* the public helpers, which catch nothing
ListOps == {"get_chats", "get_private_chats", "get_group_chats"}

\* keep_chat without the support-account test
keep_chat_no_support(c) == PyInt(c.id) \in keep_chats \/ c.username \in keep_chats

\* Cleaner.keep_chat
keep_chat(c) == PyInt(c.id) \in keep_chats \/ c.username \in keep_chats \/ c.is_support

PrivateTypes == {"PRIVATE", "BOT"}
GroupTypes == {"GROUP", "SUPERGROUP", "CHANNEL"}

\* the elements of q whose type is in T, in order
RECURSIVE FilterType(_, _)
FilterType(q, T) == IF q = <<>> THEN <<>> ELSE (IF Head(q).type \in T THEN <<Head(q)>> ELSE <<>>) \o FilterType(Tail(q), T)

\* get_private_chats / get_group_chats over what get_chats returned
get_private_chats(rv) == FilterType(rv, PrivateTypes)
get_group_chats(rv) == FilterType(rv, GroupTypes)

\* the list an operation works on, from what get_chats returned
ChatsFor(o, rv) ==
    CASE o \in {"delete_private_chats", "clear_private_chats", "get_private_chats"} -> get_private_chats(rv)
      [] o \in {"delete_group_messages", "leave_groups", "get_group_chats"} -> get_group_chats(rv)
      [] OTHER -> rv

\* the ids of the contacts outside the keep list only
ContactIdsNotKept(cs) == LET rest == SelectSeq(cs, LAMBDA x : PyInt(x.id) \notin keep_chats /\ x.username \notin keep_chats) IN [j \in DOMAIN rest |-> rest[j].id]

\* [x.id for x in contacts]
ContactIds(cs) == [j \in DOMAIN cs |-> cs[j].id]

\* clean() with two steps exchanged
CleanSeqSwapped == <<"delete_contacts", "delete_private_chats", "delete_group_messages", "leave_groups">>

\* clean(): the operations awaited, in order
CleanSeq == <<"delete_contacts", "delete_group_messages", "delete_private_chats", "leave_groups">>

\* the chat is never marked seen
SeenAddForgotten(s, id) == s

\* seen.add(chat.id)
SeenAdd(s, id) == s \cup {id}

\* the seen test never fires
AlreadySeenNever(s, id) == FALSE

\* if chat.id in seen
AlreadySeen(s, id) == id \in s

\* the linked chat is not queued
PushForgotten(q, linked) == q

\* chats.append(linked_chat)
Push(q, linked) == Append(q, linked)

\* no per-chat except clause
CaughtNothing(exc) == FALSE

\* except errors.ChannelPrivate around one chat of delete_group_messages
CaughtPerChat(exc) == exc = "ChannelPrivate"

Event(call, id, ids) == [call |-> call, chat |-> id, ids |-> ids]
Logged(level, msg) == [level |-> level, msg |-> msg]

\* where a gated operation's try block starts
BodyStart(o) == IF o = "delete_contacts" THEN "get_contacts" ELSE "get_chats"

\* the running operation returns to its caller: normally ("returned") or from
\* its except clause ("failed")
ReturnAs(how) ==
    /\ finished' = Append(finished, [op |-> op, how |-> how])
    /\ pc' = IF entry = "clean" THEN "clean" ELSE "done"
    /\ propagated' = propagated

Return == ReturnAs("returned")

\* the running operation goes on at p
Goto(p) == pc' = p /\ UNCHANGED <<finished, propagated>>

\* the refusal branch without its return: the cancellation is logged and the
\* operation goes on
CanceledNoReturn(o) ==
    /\ log' = Append(log, Logged(IF o = "delete_contacts" THEN "info" ELSE "warning", "Canceled"))
    /\ Goto(BodyStart(o))

\* the gate's refusal branch: log the cancellation and return
Canceled(o) ==
    /\ log' = Append(log, Logged(IF o = "delete_contacts" THEN "info" ELSE "warning", "Canceled"))
    /\ Return

\* exc is raised inside the running operation; perChat: inside the per-chat
\* try of delete_group_messages
Raise(exc, perChat) ==
    IF perChat /\ CaughtPerChat(exc)
    THEN /\ log' = Append(log, Logged("warning", exc))
         /\ Goto("dgm_loop")
    ELSE IF op \in TryOps
    THEN /\ log' = Append(log, Logged(IF op = "leave_groups" THEN "error" ELSE "exception", exc))
         /\ ReturnAs("failed")
    ELSE /\ propagated' = exc
         /\ pc' = "raised"
         /\ UNCHANGED <<log, finished>>

\* ------------------------------------------------------------ the operations
fixed == <<keep_chats, confirm_all, data, chunksize, yielded, gen>>

Init ==
    /\ IdleRun
    /\ keep_chats \in KeepLists
    /\ confirm_all \in BOOLEAN
    /\ data = <<>> /\ chunksize = ChunkSize /\ yielded = <<>> /\ gen = "none"

\* the caller awaits one of the five gated operations
InvokeGated ==
    /\ pc = "idle"
    /\ \E e \in GatedOps : entry' = e /\ op' = e /\ started' = <<e>>
    /\ pc' = "gate"
    /\ UNCHANGED <<fixed, clean_i, chats, seen, chat, contacts, message_ids, i, events, log, prompts, answer, finished, propagated>>

\* the caller awaits clean()
InvokeClean ==
    /\ pc = "idle"
    /\ entry' = "clean"
    /\ pc' = "clean"
    /\ UNCHANGED <<fixed, op, clean_i, chats, seen, chat, contacts, message_ids, i, events, log, prompts, answer, started, finished, propagated>>

\* the caller awaits get_chats, get_private_chats, get_group_chats or dump_chats
InvokeList ==
    /\ pc = "idle"
    /\ \E e \in ListOps \cup {"dump_chats"} : entry' = e /\ op' = e /\ started' = <<e>>
    /\ pc' = "get_chats"
    /\ UNCHANGED <<fixed, clean_i, chats, seen, chat, contacts, message_ids, i, events, log, prompts, answer, finished, propagated>>

\* the caller awaits dump_me or logout
InvokeFetch ==
    /\ pc = "idle"
    /\ \E e \in {"dump_me", "logout"} : entry' = e /\ op' = e /\ started' = <<e>>
    /\ pc' = "fetch"
    /\ UNCHANGED <<fixed, clean_i, chats, seen, chat, contacts, message_ids, i, events, log, prompts, answer, finished, propagated>>

\* the caller awaits delete_own_messages(chat_id)
InvokeDeleteOwn ==
    /\ pc = "idle"
    /\ \E id \in ChatIds : chat' = ChatById(id)
    /\ entry' = "delete_own_messages" /\ op' = "delete_own_messages"
    /\ started' = <<"delete_own_messages">>
    /\ pc' = "search"
    /\ UNCHANGED <<fixed, clean_i, chats, seen, contacts, message_ids, i, events, log, prompts, answer, finished, propagated>>

\* the caller awaits get_linked_chat(chat)
InvokeGetLinked ==
    /\ pc = "idle"
    /\ \E c \in Chats : chat' = c
    /\ entry' = "get_linked_chat" /\ op' = "get_linked_chat"
    /\ started' = <<"get_linked_chat">>
    /\ pc' = "get_linked"
    /\ UNCHANGED <<fixed, clean_i, chats, seen, contacts, message_ids, i, events, log, prompts, answer, finished, propagated>>

\* clean(): await the next operation of the sequence, or return
Clean ==
    /\ pc = "clean"
    /\ IF clean_i <= Len(CleanSeq)
       THEN /\ op' = CleanSeq[clean_i]
            /\ started' = Append(started, CleanSeq[clean_i])
            /\ clean_i' = clean_i + 1
            /\ pc' = "gate"
            /\ chats' = <<>> /\ seen' = {} /\ chat' = NoChat /\ contacts' = <<>>
            /\ message_ids' = <<>> /\ i' = 0
            /\ events' = <<>> /\ log' = <<>> /\ prompts' = <<>> /\ answer' = <<>>
       ELSE /\ pc' = "done"
            /\ UNCHANGED <<op, started, clean_i, chats, seen, chat, contacts, message_ids, i, events, log, prompts, answer>>
    /\ UNCHANGED <<fixed, entry, finished, propagated>>

\* if not self.confirm_all and ...: confirm_all set, nothing is asked
GateAuto ==
    /\ pc = "gate"
    /\ confirm_all
    /\ Goto(BodyStart(op))
    /\ UNCHANGED <<fixed, entry, op, clean_i, chats, seen, chat, contacts, message_ids, i, events, log, prompts, answer, started>>

\* Cleaner.confirm: input(f"{s}? (y/N): ") shows the prompt and reads a line
GatePrompt ==
    /\ pc = "gate"
    /\ ~confirm_all
    /\ prompts' = Append(prompts, PromptText(op))
    /\ \E typed \in Answers \cup {EndOfInput} :
        IF typed = EndOfInput
        THEN propagated' = "EOFError" /\ pc' = "raised" /\ UNCHANGED <<answer, finished>>
        ELSE answer' = typed /\ Goto("answered")
    /\ UNCHANGED <<fixed, entry, op, clean_i, chats, seen, chat, contacts, message_ids, i, events, log, started>>

\* if not self.confirm_all and not self.confirm(...): log "Canceled" and return
GateDecide ==
    /\ pc = "answered"
    /\ IF confirm(answer)
       THEN Goto(BodyStart(op)) /\ UNCHANGED log
       ELSE Canceled(op)
    /\ answer' = <<>>
    /\ UNCHANGED <<fixed, entry, op, clean_i, chats, seen, chat, contacts, message_ids, i, events, prompts, started>>

\* delete_contacts: contacts = await self.client.get_contacts()
GetContacts ==
    /\ pc = "get_contacts"
    /\ events' = Append(events, Event("get_contacts", 0, <<>>))
    /\ \/ \E cs \in ContactLists : contacts' = cs /\ Goto("delete_contacts") /\ UNCHANGED log
       \/ \E exc \in Exceptions : Raise(exc, FALSE) /\ UNCHANGED contacts
    /\ UNCHANGED <<fixed, entry, op, clean_i, chats, seen, chat, message_ids, i, prompts, answer, started>>

\* delete_contacts: await self.client.delete_contacts([x.id for x in contacts])
DeleteContacts ==
    /\ pc = "delete_contacts"
    /\ events' = Append(events, Event("delete_contacts", 0, ContactIds(contacts)))
    /\ \/ log' = Append(log, Logged("info", "Contacts deleted successfully!")) /\ Return
       \/ \E exc \in Exceptions : Raise(exc, FALSE)
    /\ UNCHANGED <<fixed, entry, op, clean_i, chats, seen, chat, contacts, message_ids, i, prompts, answer, started>>

\* where each chat operation loops
LoopOf(o) ==
    CASE o = "delete_private_chats" -> "dpc_loop"
      [] o = "clear_private_chats" -> "cpc_loop"
      [] o = "delete_group_messages" -> "dgm_loop"
      [] o = "leave_groups" -> "lg_loop"

\* get_chats (through get_private_chats / get_group_chats where the operation
\* uses them): the dialogs are read and filtered; the event keeps the ids of the
\* chats the operation took from them
GetChats ==
    /\ pc = "get_chats"
    /\ \/ \E rv \in DialogLists :
            /\ events' = Append(events, Event("get_dialogs", 0, [j \in DOMAIN ChatsFor(op, rv) |-> ChatsFor(op, rv)[j].id]))
            /\ chats' = ChatsFor(op, rv)
            /\ IF op \in ListOps \cup {"dump_chats"} THEN Return ELSE Goto(LoopOf(op))
            /\ UNCHANGED log
       \/ \E exc \in Exceptions :
            /\ events' = Append(events, Event("get_dialogs", 0, <<>>))
            /\ Raise(exc, FALSE)
            /\ UNCHANGED chats
    /\ UNCHANGED <<fixed, entry, op, clean_i, seen, chat, contacts, message_ids, i, prompts, answer, started>>

\* dump_me / logout: the one remote call, printed
Fetch ==
    /\ pc = "fetch"
    /\ events' = Append(events, Event(IF op = "dump_me" THEN "get_me" ELSE "log_out", 0, <<>>))
    /\ \/ Return /\ UNCHANGED log
       \/ \E exc \in Exceptions : Raise(exc, FALSE)
    /\ UNCHANGED <<fixed, entry, op, clean_i, chats, seen, chat, contacts, message_ids, i, prompts, answer, started>>

\* delete_private_chats: the for loop takes the next chat
DPC_Next ==
    /\ pc = "dpc_loop"
    /\ IF chats = <<>>
       THEN /\ log' = Append(log, Logged("info", "private chats deleted successfully!"))
            /\ Return
            /\ UNCHANGED <<chats, chat>>
       ELSE /\ chat' = Head(chats)
            /\ chats' = Tail(chats)
            /\ Goto(IF keep_chat(Head(chats)) THEN "dpc_loop" ELSE "resolve_peer")
            /\ UNCHANGED log
    /\ UNCHANGED <<fixed, entry, op, clean_i, seen, contacts, message_ids, i, events, prompts, answer, started>>

\* delete_private_chats: peer = await self.client.resolve_peer(chat.id)
DPC_ResolvePeer ==
    /\ pc = "resolve_peer"
    /\ events' = Append(events, Event("resolve_peer", chat.id, <<>>))
    /\ \/ Goto("delete_history") /\ UNCHANGED log
       \/ \E exc \in Exceptions : Raise(exc, FALSE)
    /\ UNCHANGED <<fixed, entry, op, clean_i, chats, seen, chat, contacts, message_ids, i, prompts, answer, started>>

\* delete_private_chats: invoke(DeleteHistory(peer, max_id=0, revoke=True))
DPC_DeleteHistory ==
    /\ pc = "delete_history"
    /\ events' = Append(events, Event("DeleteHistory", chat.id, <<>>))
    /\ \/ Goto("dpc_loop") /\ UNCHANGED log
       \/ \E exc \in Exceptions : Raise(exc, FALSE)
    /\ UNCHANGED <<fixed, entry, op, clean_i, chats, seen, chat, contacts, message_ids, i, prompts, answer, started>>

\* clear_private_chats: the for loop takes the next chat
CPC_Next ==
    /\ pc = "cpc_loop"
    /\ IF chats = <<>>
       THEN /\ log' = Append(log, Logged("info", "private chats cleared successfully!"))
            /\ Return
            /\ UNCHANGED <<chats, chat>>
       ELSE /\ chat' = Head(chats)
            /\ chats' = Tail(chats)
            /\ Goto(IF keep_chat(Head(chats)) THEN "cpc_loop" ELSE "get_history")
            /\ UNCHANGED log
    /\ UNCHANGED <<fixed, entry, op, clean_i, seen, contacts, message_ids, i, events, prompts, answer, started>>

\* clear_private_chats: the ids of get_chat_history are collected
CPC_GetHistory ==
    /\ pc = "get_history"
    /\ events' = Append(events, Event("get_chat_history", chat.id, <<>>))
    /\ \/ \E n \in MsgCounts : message_ids' = Messages(n) /\ i' = 0 /\ Goto("cpc_chunks") /\ UNCHANGED log
       \/ \E exc \in Exceptions : Raise(exc, FALSE) /\ UNCHANGED <<message_ids, i>>
    /\ UNCHANGED <<fixed, entry, op, clean_i, chats, seen, chat, contacts, prompts, answer, started>>

\* clear_private_chats: for chunk in iter_chunks(message_ids): delete_messages
CPC_DeleteChunk ==
    /\ pc = "cpc_chunks"
    /\ IF RangeHasNext(i, Len(message_ids), ChunkSize)
       THEN /\ events' = Append(events, Event("delete_messages", chat.id, Slice(message_ids, i, i + ChunkSize)))
            /\ i' = i + ChunkSize
            /\ \/ Goto("cpc_chunks") /\ UNCHANGED log
               \/ \E exc \in Exceptions : Raise(exc, FALSE)
       ELSE Goto("cpc_loop") /\ UNCHANGED <<events, i, log>>
    /\ UNCHANGED <<fixed, entry, op, clean_i, chats, seen, chat, contacts, message_ids, prompts, answer, started>>

\* leave_groups: the for loop takes the next chat
LG_Next ==
    /\ pc = "lg_loop"
    /\ IF chats = <<>>
       THEN /\ log' = Append(log, Logged("info", "Groups leaved successfully!"))
            /\ Return
            /\ UNCHANGED <<chats, chat>>
       ELSE /\ chat' = Head(chats)
            /\ chats' = Tail(chats)
            /\ Goto(IF keep_chat(Head(chats)) THEN "lg_loop" ELSE "leave_chat")
            /\ UNCHANGED log
    /\ UNCHANGED <<fixed, entry, op, clean_i, seen, contacts, message_ids, i, events, prompts, answer, started>>

\* leave_groups: await self.client.leave_chat(chat.id)
LG_Leave ==
    /\ pc = "leave_chat"
    /\ events' = Append(events, Event("leave_chat", chat.id, <<>>))
    /\ \/ Goto("lg_loop") /\ UNCHANGED log
       \/ \E exc \in Exceptions : Raise(exc, FALSE)
    /\ UNCHANGED <<fixed, entry, op, clean_i, chats, seen, chat, contacts, message_ids, i, prompts, answer, started>>

\* delete_group_messages: while chats: chat = chats.pop(); kept and seen chats
\* are skipped, a new one is marked seen
DGM_Pop ==
    /\ pc = "dgm_loop"
    /\ IF chats = <<>>
       THEN /\ log' = Append(log, Logged("info", "Group messages deleted successfully!"))
            /\ Return
            /\ UNCHANGED <<chats, chat, seen>>
       ELSE LET c == chats[Len(chats)] IN
            /\ chat' = c
            /\ chats' = SubSeq(chats, 1, Len(chats) - 1)
            /\ IF keep_chat(c) \/ AlreadySeen(seen, c.id)
               THEN Goto("dgm_loop") /\ UNCHANGED seen
               ELSE Goto("get_linked") /\ seen' = SeenAdd(seen, c.id)
            /\ UNCHANGED log
    /\ UNCHANGED <<fixed, entry, op, clean_i, contacts, message_ids, i, events, prompts, answer, started>>

\* what a remote call made for chat c can raise
Raisable(c) == IF c.id \in Inaccessible THEN Exceptions ELSE Exceptions \ {"ChannelPrivate"}

\* after get_linked_chat: delete_group_messages goes on to delete_own_messages,
\* a direct call returns
AfterLinked == IF op = "delete_group_messages" THEN Goto("search") ELSE Return

\* get_linked_chat: None for a chat that is no channel; else get_chat, and in
\* delete_group_messages a linked chat is appended and the loop sleeps
GetLinked ==
    /\ pc = "get_linked"
    /\ LET perChat == op = "delete_group_messages" IN
       IF chat.type # "CHANNEL"
       THEN AfterLinked /\ UNCHANGED <<events, chats, log>>
       ELSE \/ \E l \in LinkTargets \cup {NoChat} :
                 /\ events' = events \o <<Event("get_chat", chat.id, <<>>)>> \o
                        (IF perChat /\ l # NoChat THEN <<Event("push", l.id, <<>>), Event("sleep", 0, <<FloodSleep>>)>> ELSE <<>>)
                 /\ chats' = IF perChat /\ l # NoChat THEN Push(chats, l) ELSE chats
                 /\ AfterLinked
                 /\ UNCHANGED log
            \/ \E exc \in Raisable(chat) :
                 /\ events' = Append(events, Event("get_chat", chat.id, <<>>))
                 /\ Raise(exc, perChat)
                 /\ UNCHANGED chats
    /\ UNCHANGED <<fixed, entry, op, clean_i, seen, chat, contacts, message_ids, i, prompts, answer, started>>

\* after delete_own_messages: delete_group_messages takes the next chat, a
\* direct call returns
AfterOwn == IF op = "delete_group_messages" THEN Goto("dgm_loop") ELSE Return

\* delete_own_messages: the ids of search_messages(from_user="me") are collected
Search ==
    /\ pc = "search"
    /\ events' = events \o <<Event("delete_own_messages", chat.id, <<>>), Event("search_messages", chat.id, <<>>)>>
    /\ \/ \E n \in MsgCounts :
            /\ message_ids' = Messages(n)
            /\ i' = 0
            /\ IF n = 0 THEN AfterOwn ELSE Goto("dom_chunks")
            /\ UNCHANGED log
       \/ \E exc \in Raisable(chat) : Raise(exc, op = "delete_group_messages") /\ UNCHANGED <<message_ids, i>>
    /\ UNCHANGED <<fixed, entry, op, clean_i, chats, seen, chat, contacts, prompts, answer, started>>

\* delete_own_messages: for chunk in iter_chunks(message_ids): delete_messages
DOM_DeleteChunk ==
    /\ pc = "dom_chunks"
    /\ IF RangeHasNext(i, Len(message_ids), ChunkSize)
       THEN /\ events' = Append(events, Event("delete_messages", chat.id, Slice(message_ids, i, i + ChunkSize)))
            /\ i' = i + ChunkSize
            /\ \/ Goto("dom_chunks") /\ UNCHANGED log
               \/ \E exc \in Raisable(chat) : Raise(exc, op = "delete_group_messages")
       ELSE /\ log' = Append(log, Logged("info", "Total deleted messages"))
            /\ AfterOwn
            /\ UNCHANGED <<events, i>>
    /\ UNCHANGED <<fixed, entry, op, clean_i, chats, seen, chat, contacts, message_ids, prompts, answer, started>>

Next ==
    \/ InvokeGated \/ InvokeClean \/ InvokeList \/ InvokeFetch \/ InvokeDeleteOwn \/ InvokeGetLinked
    \/ Clean \/ GateAuto \/ GatePrompt \/ GateDecide
    \/ GetContacts \/ DeleteContacts \/ GetChats \/ Fetch
    \/ DPC_Next \/ DPC_ResolvePeer \/ DPC_DeleteHistory
    \/ CPC_Next \/ CPC_GetHistory \/ CPC_DeleteChunk
    \/ LG_Next \/ LG_Leave
    \/ DGM_Pop \/ GetLinked \/ Search \/ DOM_DeleteChunk

Spec == Init /\ [][Next]_vars

\* ------------------------------------------------------------------- claims
\* the remote calls that delete or leave a chat
Destructive == {"DeleteHistory", "delete_messages", "leave_chat"}

\* the operations that walk the chats
ChatOps == {"delete_private_chats", "clear_private_chats", "delete_group_messages", "leave_groups"}

\* a chat the user asked to keep: id or username in the keep list, or support
Protected(c) == PyInt(c.id) \in keep_chats \/ c.username \in keep_chats \/ c.is_support

\* the positions of the events of one call
EventsOf(call) == {j \in DOMAIN events : events[j].call = call}

\* how many times delete_own_messages was invoked for chat id
OwnCount(id) == Cardinality({j \in EventsOf("delete_own_messages") : events[j].chat = id})

\* the ids of the chats the running operation took from get_dialogs
DialogIds == UNION {{events[j].ids[k] : k \in DOMAIN events[j].ids} : j \in EventsOf("get_dialogs")}

\* delete_group_messages ran its loop to the end
DgmCompleted == op = "delete_group_messages" /\ log # <<>> /\ log[Len(log)] = Logged("info", "Group messages deleted successfully!")

\* nothing was raised in the running operation
NoRaise == propagated = "none" /\ \A j \in DOMAIN log : log[j].level = "info"

\* C1: in delete_private_chats, clear_private_chats, delete_group_messages and
\* leave_groups no DeleteHistory, delete_messages or leave_chat is ever issued
\* for a chat whose id or username is in keep_chats or that is the support chat.
C1_KeptNeverTouched == op \in ChatOps => \A j \in DOMAIN events : events[j].call \in Destructive => ~Protected(ChatById(events[j].chat))

\* a kept comment group was reached through its channel, whose messages were deleted
C1_Witness ==
    /\ DgmCompleted
    /\ \E j \in EventsOf("push") : Protected(ChatById(events[j].chat)) /\ events[j].chat \notin DialogIds
    /\ EventsOf("delete_messages") # {}

\* the answers that are not affirmative
Declines == { <<>>, <<"n">>, <<"n", "y">>, <<" ">> }

\* C2: a non-affirmative answer ends the operation with no remote call and a
\* logged cancellation; with confirm_all no prompt is shown (and without it the
\* gated operation prompts before any remote call).
C2_Gate ==
    /\ [][pc = "answered" /\ answer \in Declines =>
            /\ events = <<>> /\ events' = <<>>
            /\ log' = <<Logged(IF op = "delete_contacts" THEN "info" ELSE "warning", "Canceled")>>
            /\ finished' = Append(finished, [op |-> op, how |-> "returned"])
            /\ pc' \in {"done", "clean"}]_vars
    /\ [](confirm_all => prompts = <<>>)
    /\ [](op \in GatedOps /\ ~confirm_all /\ events # <<>> => prompts = <<PromptText(op)>>)

\* a declined operation has returned
C2_Witness == op = "leave_groups" /\ pc = "done" /\ prompts # <<>> /\ log = <<Logged("warning", "Canceled")>> /\ events = <<>>

\* C3: delete_group_messages invokes delete_own_messages at most once per chat
\* id; a non-kept group that is in the dialog list and is also pushed as a
\* channel's linked chat has it invoked exactly once when the loop completes.
C3_OncePerChat == op = "delete_group_messages" =>
    /\ \A id \in ChatIds : OwnCount(id) <= 1
    /\ DgmCompleted => \A g \in Chats :
          (g.type \in {"GROUP", "SUPERGROUP"} /\ ~Protected(g) /\ g.id \in DialogIds /\ \E j \in EventsOf("push") : events[j].chat = g.id) => OwnCount(g.id) = 1

\* a group of the dialog list was also pushed as a linked chat, and the loop completed
C3_Witness == DgmCompleted /\ \E g \in Chats : g.type = "SUPERGROUP" /\ ~Protected(g) /\ g.id \in DialogIds /\ OwnCount(g.id) = 1 /\ \E j \in EventsOf("push") : events[j].chat = g.id

\* the per-chat part of delete_group_messages
InChatTry == op = "delete_group_messages" /\ pc \in {"get_linked", "search", "dom_chunks"}

\* C4: in delete_group_messages a ChannelPrivate raised while handling a chat
\* is logged as a warning and the loop goes on with the work-list untouched;
\* any other exception raised there is logged and ends the operation, and
\* nothing reaches the caller.
C4_PerChatFailure ==
    [][InChatTry =>
        /\ propagated' = "none"
        /\ (\E lv \in {"warning", "exception", "error"} : log' = Append(log, Logged(lv, "ChannelPrivate"))) =>
              /\ log' = Append(log, Logged("warning", "ChannelPrivate"))
              /\ pc' = "dgm_loop" /\ chats' = chats /\ finished' = finished
        /\ (\E lv \in {"warning", "exception", "error"} : log' = Append(log, Logged(lv, "RPCError"))) =>
              /\ log' = Append(log, Logged("exception", "RPCError"))
              /\ pc' \in {"done", "clean"} /\ finished' = Append(finished, [op |-> op, how |-> "failed"])]_vars

\* after a ChannelPrivate for one chat another chat was handled and the loop completed
C4_Witness == DgmCompleted /\ pc = "done" /\ log[1] = Logged("warning", "ChannelPrivate") /\ log[2] = Logged("info", "Total deleted messages")

\* q is an initial part of r
IsPrefix(q, r) == Len(q) <= Len(r) /\ q = SubSeq(r, 1, Len(q))

\* the operations that have returned, in order
Ended == [j \in DOMAIN finished |-> finished[j].op]

\* C5: clean() starts delete_contacts, delete_group_messages,
\* delete_private_chats and leave_groups, in that order, each once and each
\* after the one before it returned, and never clear_private_chats; when
\* clean() returns all four have run.
C5_CleanOrder == entry = "clean" =>
    /\ IsPrefix(started, <<"delete_contacts", "delete_group_messages", "delete_private_chats", "leave_groups">>)
    /\ IsPrefix(Ended, started)
    /\ Len(started) - Len(Ended) <= 1
    /\ pc \in {"gate", "answered"} => Len(Ended) = Len(started) - 1
    /\ pc = "done" => Len(started) = 4 /\ Ended = started

\* clean() has returned
C5_Witness == entry = "clean" /\ pc = "done" /\ Len(finished) = 4 /\ \A j \in 1..4 : finished[j].how = "returned"

\* the running operation logged a failure last
LoggedFailure == log # <<>> /\ log[Len(log)].level \in {"exception", "error"}

\* the operations whose remote calls sit in a try block
Guarded == {"delete_contacts", "delete_private_chats", "clear_private_chats", "delete_group_messages", "leave_groups", "dump_chats", "dump_me", "logout"}

\* C6 as stated: no exception of a public operation ever reaches its caller.
C6_AsStated == propagated = "none"

\* C6 amended: an exception a remote call raises inside the try block of
\* delete_contacts, delete_private_chats, clear_private_chats,
\* delete_group_messages, leave_groups, dump_chats, dump_me or logout is logged
\* there and does not reach the caller, so clean() goes on with its next step
\* and returns only after starting all four; what does reach the caller is an
\* exception of the helpers (get_chats, get_private_chats, get_group_chats,
\* delete_own_messages, get_linked_chat) called directly, or the prompt's
\* EOFError, raised before the try block and before any remote call.
C6_CaughtInTry ==
    /\ propagated # "none" /\ op \in Guarded => propagated = "EOFError" /\ events = <<>> /\ ~confirm_all
    /\ propagated # "none" => pc = "raised"
    /\ LoggedFailure => op \in Guarded /\ propagated = "none" /\ pc \in {"done", "clean"} /\ finished # <<>> /\ finished[Len(finished)] = [op |-> op, how |-> "failed"]
    /\ \A j \in DOMAIN finished : finished[j].how = "failed" /\ entry = "clean" =>
          \/ Len(started) > j
          \/ j = Len(started) /\ (pc = "clean" \/ (pc = "done" /\ j = 4))
    /\ entry = "clean" /\ pc = "done" => started = <<"delete_contacts", "delete_group_messages", "delete_private_chats", "leave_groups">>

\* remote failures ended the first three steps of clean(), and the fourth has started
C6_Witness == entry = "clean" /\ Len(started) = 4 /\ Len(finished) = 3 /\ \A j \in 1..3 : finished[j].how = "failed"

\* C8 as stated: delete_contacts passes no contact of the keep list to the
\* remote delete_contacts call.
C8_AsStated == \A j \in EventsOf("delete_contacts") : \A k \in DOMAIN events[j].ids :
    LET c == ChatById(events[j].ids[k]) IN PyInt(c.id) \notin keep_chats /\ c.username \notin keep_chats

\* C8 amended: the keep list guards the chat operations only; delete_contacts
\* passes the id of every contact get_contacts returned, kept or not.
C8_AllContacts == \A j \in EventsOf("delete_contacts") :
    /\ Len(events[j].ids) = Len(contacts)
    /\ \A k \in DOMAIN contacts : events[j].ids[k] = contacts[k].id

\* a contact whose username is in the keep list was passed to delete_contacts
C8_Witness == \E j \in EventsOf("delete_contacts") : \E k \in DOMAIN events[j].ids : ChatById(events[j].ids[k]).username \in keep_chats

\* C9: in delete_group_messages, (a) a kept channel's linked chat is never
\* looked up; (b) a linked chat is pushed right after its channel's get_chat
\* and before delete_own_messages of that channel; and when the loop completes
\* with nothing raised, (c) delete_own_messages was invoked for every non-kept
\* group-like chat of the dialog list and (d) for every pushed non-kept linked
\* chat, in the dialog list or not.
C9_LinkedGroups == op = "delete_group_messages" =>
    /\ \A j \in EventsOf("get_chat") : ~Protected(ChatById(events[j].chat)) /\ ChatById(events[j].chat).type = "CHANNEL"
    /\ \A j \in EventsOf("push") :
          /\ j > 1 /\ events[j - 1].call = "get_chat"
          /\ \A k \in EventsOf("delete_own_messages") : events[k].chat = events[j - 1].chat => k > j
    /\ DgmCompleted /\ NoRaise =>
          /\ \A id \in DialogIds : ChatById(id).type \in GroupTypes /\ ~Protected(ChatById(id)) => OwnCount(id) = 1
          /\ \A j \in EventsOf("push") : ~Protected(ChatById(events[j].chat)) => OwnCount(events[j].chat) = 1

\* a linked group outside the dialog list had its own messages deleted
C9_Witness == DgmCompleted /\ NoRaise /\ \E j \in EventsOf("push") : events[j].chat \notin DialogIds /\ OwnCount(events[j].chat) = 1 /\ ChatById(events[j].chat).type = "SUPERGROUP"

\* the caller awaits delete_group_messages
InvokeDeleteGroupMessages == InvokeGated /\ entry' = "delete_group_messages"

\* the steps of a run of delete_group_messages
NextDgm ==
    \/ InvokeDeleteGroupMessages \/ GateAuto \/ GatePrompt \/ GateDecide
    \/ GetChats \/ DGM_Pop \/ GetLinked \/ Search \/ DOM_DeleteChunk

\* a run of delete_group_messages in which every step is eventually taken:
\* each awaited call returns or raises, and input() returns or raises
FairDgm == Init /\ [][NextDgm]_vars /\ WF_vars(NextDgm)

\* delete_group_messages has ended
DgmEnded == pc = "raised" \/ \E j \in DOMAIN finished : finished[j].op = "delete_group_messages"

\* C10: delete_group_messages ends for every dialog list and link structure:
\* each chat id is expanded (looked up, pushed from, searched) at most once, at
\* most one linked chat is pushed per seen id, and a completed loop leaves the
\* work-list empty.
C10_Terminates ==
    /\ [](op = "delete_group_messages" =>
            /\ \A id \in ChatIds : Cardinality({j \in EventsOf("get_chat") : events[j].chat = id}) <= 1 /\ OwnCount(id) <= 1
            /\ Cardinality(EventsOf("push")) <= Cardinality(seen)
            /\ DgmCompleted => chats = <<>>)
    /\ (op = "delete_group_messages") ~> DgmEnded

\* a cycle was walked to the end: a channel linked to a channel linked back
C10_Witness == DgmCompleted /\ \E j, k \in EventsOf("push") : j < k /\ events[j - 1].chat = events[k].chat /\ events[k - 1].chat = events[j].chat

====
